---- MODULE Spec2Model ----
(***************************************************************************)
(* A model of src/src/filesystem.cpp (MEGA SDK, generic host filesystem    *)
(* access): name escaping (FileSystemAccess), the notification queues of   *)
(* DirNotify, and FileAccess with its AsyncIOContext objects.              *)
(*                                                                         *)
(* Strings are sequences of byte values (0..255).                          *)
(***************************************************************************)
EXTENDS Integers, Sequences, FiniteSets, Bags, TLC

VARIABLES
    \* ---- FileSystemAccess: one name being converted
    name,          \* the string the conversions work on (string* filename)
    orig,          \* the presentation string the run started from
    stage,         \* "name" | "local" | "back": which conversion has run
    \* ---- DirNotify
    notifyq,       \* notifyq[q]: the queue of entries [timestamp, localnode, path]
    ds,            \* Waiter::ds, the debounce clock
    initializing,  \* sync->initializing: the initial subtree scan is running
    syncactivity,  \* sync->client->syncactivity
    last,          \* the last notify call: its arguments and how it ended
    probe,         \* what fopen and localnodebypath returned to the last call
    \* ---- FileAccess and its AsyncIOContexts
    fa,            \* the fields of one FileAccess
    disk,          \* the file on disk: its current mtime and size
    handle,        \* TRUE while the system handle is open
    lastop,        \* the last operation: its name, system calls and return value
    ctxs,          \* the live AsyncIOContext objects, a bag
    waiter,        \* TRUE when the shared waiter has been notified
    \* ---- the engine thread inside ~AsyncIOContext / finish
    thread,        \* its position and what finish has done so far
    dying,         \* the AsyncIOContext being destroyed
    \* ---- one call of a function of LocalPath or FileSystemAccess
    call,          \* the function and its arguments
    returned       \* what it returned

vars == <<name, orig, stage,
          notifyq, ds, initializing, syncactivity, last, probe,
          fa, disk, handle, lastop, ctxs, waiter,
          thread, dying, call, returned>>

nameVars   == <<name, orig, stage>>
notifyVars == <<notifyq, ds, initializing, syncactivity, last, probe>>
fileVars   == <<fa, disk, handle, lastop, ctxs, waiter>>
threadVars == <<thread, dying>>
callVars   == <<call, returned>>

(***************************************************************************)
(* Bounds of the model.                                                    *)
(***************************************************************************)
MaxNameLen == 3
MaxQueued == 2
MaxDs == 2
MaxContexts == 2
MaxPathLen == 3

(***************************************************************************)
(* FileSystemAccess: character predicates and %xx escaping.                *)
(***************************************************************************)
\* The bytes names are built from: % . / 2 e f g and the control byte 1.
NameChars == {37, 46, 47, 50, 101, 102, 103, 1}

\* the characters of "\\/:?\"<>|*"
BadChars == {92, 47, 58, 63, 34, 60, 62, 124, 42}

islchex(c) == (c >= 48 /\ c <= 57) \/ (c >= 97 /\ c <= 102)

\* mutant of islocalfscompatible: the percent sign is not allowed either
islocalfscompatibleNoPercent(c) == c >= 32 /\ c \notin BadChars /\ c # 37

islocalfscompatible(c) == c >= 32 /\ c \notin BadChars

\* one lowercase hex digit, as sprintf("%02x") prints it
HexDigit(n) == IF n < 10 THEN 48 + n ELSE 87 + n

\* MegaClient::hexval on a lowercase hex digit
hexval(c) == IF c <= 57 THEN c - 48 ELSE c - 87

\* sprintf(buf, "%%%02x", c)
EscapeOf(c) == <<37, HexDigit(c \div 16), HexDigit(c % 16)>>

\* s with the n items from (0-based) position i replaced by r: string::replace
Replace(s, i, n, r) == SubSeq(s, 1, i) \o r \o SubSeq(s, i + n + 1, Len(s))

\* (*name)[i], 0-based; the byte at size() is the terminating 0
At(s, i) == IF i < Len(s) THEN s[i + 1] ELSE 0

\* the loop of escapefsincompatible, about to test i-- with the given i
RECURSIVE EscapeLoop(_, _)
EscapeLoop(s, i) ==
    IF i = 0 THEN s
    ELSE LET j == i - 1
             c == At(s, j)
         IN  IF ~islocalfscompatible(c)
             THEN EscapeLoop(Replace(s, j, 1, EscapeOf(c)), j)
             ELSE EscapeLoop(s, j)

escapefsincompatible(s) ==
    IF s = <<46, 46>> THEN <<37, 50, 101, 37, 50, 101>>
    ELSE IF s = <<46>> THEN <<37, 50, 101>>
    ELSE EscapeLoop(s, Len(s))

\* the loop of unescapefsincompatible, about to test i-- > 0 with the given i
RECURSIVE UnescapeLoop(_, _)
UnescapeLoop(s, i) ==
    IF ~(i > 0) THEN s
    ELSE LET j == i - 1
         IN  IF At(s, j) = 37 /\ islchex(At(s, j + 1)) /\ islchex(At(s, j + 2))
             THEN LET c == (hexval(At(s, j + 1)) * 16 + hexval(At(s, j + 2))) % 256
                  IN  IF ~islocalfscompatible(c)
                      THEN UnescapeLoop(Replace(s, j, 3, <<c>>), j)
                      ELSE UnescapeLoop(s, j)
             ELSE UnescapeLoop(s, j)

unescapefsincompatible(s) ==
    IF s = <<37, 50, 101, 37, 50, 101>> THEN <<46, 46>>
    ELSE IF s = <<37, 50, 101>> THEN <<46>>
    ELSE UnescapeLoop(s, Len(s) - 2)

\* The platform's encoding conversions (pure virtual here): the wide encoding,
\* every byte of an ASCII name followed by a zero byte, and its inverse.
RECURSIVE path2local(_)
path2local(s) == IF s = <<>> THEN <<>> ELSE <<Head(s), 0>> \o path2local(Tail(s))

RECURSIVE local2path(_)
local2path(s) ==
    IF Len(s) < 2 THEN <<>> ELSE <<Head(s)>> \o local2path(Tail(Tail(s)))

name2local(s) == path2local(escapefsincompatible(s))

local2name(s) == unescapefsincompatible(local2path(s))

RECURSIVE StringsUpTo(_)
StringsUpTo(n) ==
    IF n = 0 THEN {<<>>}
    ELSE LET shorter == StringsUpTo(n - 1)
         IN  shorter \cup {Append(s, c) : s \in {t \in shorter : Len(t) = n - 1},
                                          c \in NameChars}

(***************************************************************************)
(* The name conversions as a state machine: a presentation string is       *)
(* converted to the local encoding and back.                               *)
(***************************************************************************)
DoName2Local ==
    /\ stage = "name"
    /\ name' = name2local(name)
    /\ stage' = "local"
    /\ UNCHANGED <<orig, notifyVars, fileVars, threadVars, callVars>>

DoLocal2Name ==
    /\ stage = "local"
    /\ name' = local2name(name)
    /\ stage' = "back"
    /\ UNCHANGED <<orig, notifyVars, fileVars, threadVars, callVars>>

\* escapefsincompatible applied to a name, and then to its own output
DoEscape ==
    /\ stage = "name"
    /\ name' = escapefsincompatible(name)
    /\ stage' = "escaped"
    /\ UNCHANGED <<orig, notifyVars, fileVars, threadVars, callVars>>

DoEscapeAgain ==
    /\ stage = "escaped"
    /\ name' = escapefsincompatible(name)
    /\ stage' = "escaped twice"
    /\ UNCHANGED <<orig, notifyVars, fileVars, threadVars, callVars>>

(***************************************************************************)
(* DirNotify::notify.  The model starts once the Sync has attached itself  *)
(* to the DirNotify (sync != NULL), with the initial scan running.         *)
(***************************************************************************)
Queues == {"DIREVENTS", "EXTRA", "RETRY"}

\* LocalNode* l ("NULL" is the null pointer) and the relative path; the events
\* notified are for a node itself, for a path below it, and for a path alone
LocalNodes == {"NULL", "l1"}
Paths == {"", "a"}
Events == (LocalNodes \X Paths) \ {<<"NULL", "">>}

\* what the self-check looks at.  ll is the LocalNode localnodebypath returns,
\* stat what newfileaccess + fopen report for the path on disk.
NoNode == [exists |-> FALSE, localnode |-> "", hasname |-> FALSE, name |-> "", fp |-> 0]
Nodes ==
    {NoNode} \cup
    {[exists |-> TRUE, localnode |-> b, hasname |-> FALSE, name |-> "", fp |-> f] :
        b \in {"ll", "other"}, f \in {1, 2}} \cup
    {[exists |-> TRUE, localnode |-> b, hasname |-> TRUE, name |-> n, fp |-> f] :
        b \in {"ll", "other"}, n \in {"a", "b"}, f \in {1, 2}}

NoLocalNode ==
    [exists |-> FALSE, type |-> "", mtime |-> 0, size |-> 0, fsid |-> 0,
     name |-> "", fp |-> 0, node |-> NoNode]
LocalNodeStates ==
    {NoLocalNode} \cup
    {[exists |-> TRUE, type |-> t, mtime |-> 1, size |-> 1, fsid |-> 1,
      name |-> "a", fp |-> 1, node |-> n] :
        t \in {"FILENODE", "FOLDERNODE"}, n \in Nodes}

StatFailed(r) ==
    [success |-> FALSE, retry |-> r, fsidvalid |-> FALSE, fsid |-> 0,
     type |-> "", mtime |-> 0, size |-> 0]
StatResults ==
    {StatFailed(r) : r \in BOOLEAN} \cup
    {[success |-> TRUE, retry |-> FALSE, fsidvalid |-> FALSE, fsid |-> 0,
      type |-> t, mtime |-> m, size |-> z] :
        t \in {"FILENODE", "FOLDERNODE"}, m \in {1, 2}, z \in {1, 2}} \cup
    {[success |-> TRUE, retry |-> FALSE, fsidvalid |-> TRUE, fsid |-> i,
      type |-> t, mtime |-> m, size |-> z] :
        i \in {1, 2}, t \in {"FILENODE", "FOLDERNODE"}, m \in {1, 2}, z \in {1, 2}}

NoProbe == [read |-> FALSE, ll |-> NoLocalNode, stat |-> StatFailed(FALSE)]
AllProbes == {[read |-> TRUE, ll |-> l, stat |-> s] : l \in LocalNodeStates, s \in StatResults}

\* a file the engine wrote itself: node and disk agree on everything
SyncedNode ==
    [exists |-> TRUE, localnode |-> "ll", hasname |-> TRUE, name |-> "a", fp |-> 1]
SyncedFile ==
    [exists |-> TRUE, type |-> "FILENODE", mtime |-> 1, size |-> 1, fsid |-> 1,
     name |-> "a", fp |-> 1, node |-> SyncedNode]
StatOf(m, z) ==
    [success |-> TRUE, retry |-> FALSE, fsidvalid |-> TRUE, fsid |-> 1,
     type |-> "FILENODE", mtime |-> m, size |-> z]
\* two probes: an unchanged file (a self-notification) and a modified file
SampleProbes ==
    {[read |-> TRUE, ll |-> SyncedFile, stat |-> StatOf(1, 1)],
     [read |-> TRUE, ll |-> SyncedFile, stat |-> StatOf(2, 1)]}

Back(queue) == queue[Len(queue)]

\* lines 186-189: the most recent entry of q is for the same node and path
TailMatches(q, l, path) ==
    /\ q \in {"DIREVENTS", "EXTRA"}
    /\ Len(notifyq[q]) > 0
    /\ Back(notifyq[q]).localnode = l
    /\ Back(notifyq[q]).path = path

\* mutants of RefreshTail: a repeated non-immediate event does not refresh the
\* timestamp; immediate does not override; the guard on a zero timestamp is
\* missing; the front entry is refreshed instead of the back
RefreshTailStale(queue, immediate) ==
    IF Back(queue).timestamp # 0 /\ immediate
    THEN [queue EXCEPT ![Len(queue)].timestamp = 0]
    ELSE queue
RefreshTailNoOverride(queue, immediate) ==
    IF Back(queue).timestamp # 0
    THEN [queue EXCEPT ![Len(queue)].timestamp = ds]
    ELSE queue
RefreshTailAlways(queue, immediate) ==
    [queue EXCEPT ![Len(queue)].timestamp = IF immediate THEN 0 ELSE ds]
RefreshTailFront(queue, immediate) ==
    IF Back(queue).timestamp # 0
    THEN [queue EXCEPT ![1].timestamp = IF immediate THEN 0 ELSE ds]
    ELSE queue

\* lines 191-194
RefreshTail(queue, immediate) ==
    IF Back(queue).timestamp # 0
    THEN [queue EXCEPT ![Len(queue)].timestamp = IF immediate THEN 0 ELSE ds]
    ELSE queue

\* mutant of SelfCheckRuns: the check also runs during the initial scan
SelfCheckRunsDuringScan(q, immediate) ==
    ~immediate /\ q = "DIREVENTS"

\* line 199
SelfCheckRuns(q, immediate) ==
    ~immediate /\ ~initializing /\ q = "DIREVENTS"

\* mutant of SelfNotification: the type reported by the stat is not compared
SelfNotificationAnyType(p) ==
    LET ll == p.ll
        st == p.stat
    IN  \/ ~ll.exists /\ ~st.success /\ ~st.retry
        \/ /\ ll.exists /\ st.success /\ ll.node.exists
           /\ ll.node.localnode = "ll"
           /\ (ll.type # "FILENODE" \/ ll.fp = ll.node.fp)
           /\ ll.node.hasname
           /\ ll.node.name = ll.name
           /\ st.fsidvalid /\ st.fsid = ll.fsid
           /\ (ll.type # "FILENODE" \/ (ll.mtime = st.mtime /\ ll.size = st.size))

\* lines 215-221
SelfNotification(p) ==
    LET ll == p.ll
        st == p.stat
    IN  \/ ~ll.exists /\ ~st.success /\ ~st.retry
        \/ /\ ll.exists /\ st.success /\ ll.node.exists
           /\ ll.node.localnode = "ll"
           /\ (ll.type # "FILENODE" \/ ll.fp = ll.node.fp)
           /\ ll.node.hasname
           /\ ll.node.name = ll.name
           /\ st.fsidvalid /\ st.fsid = ll.fsid /\ st.type = ll.type
           /\ (ll.type # "FILENODE" \/ (ll.mtime = st.mtime /\ ll.size = st.size))

\* lines 234-237
NewEntry(l, path, immediate) ==
    [timestamp |-> IF immediate THEN 0 ELSE ds, localnode |-> l, path |-> path]

\* turn flips at every call, so that a call repeating the last one is a step
Call(q, l, path, immediate, result) ==
    [q |-> q, localnode |-> l, path |-> path, immediate |-> immediate,
     result |-> result, turn |-> ~last.turn]
NoCall ==
    [q |-> "", localnode |-> "", path |-> "", immediate |-> FALSE,
     result |-> "none", turn |-> FALSE]

notify(q, l, path, immediate, p) ==
    /\ IF TailMatches(q, l, path)
       THEN /\ notifyq' = [notifyq EXCEPT ![q] = RefreshTail(@, immediate)]
            /\ last' = Call(q, l, path, immediate, "merged")
            /\ probe' = NoProbe
            /\ UNCHANGED syncactivity
       ELSE IF SelfCheckRuns(q, immediate) /\ SelfNotification(p)
       THEN /\ last' = Call(q, l, path, immediate, "suppressed")
            /\ probe' = p
            /\ UNCHANGED <<notifyq, syncactivity>>
       ELSE /\ syncactivity' = (IF q \in {"DIREVENTS", "EXTRA"} THEN TRUE ELSE syncactivity)
            /\ notifyq' = [notifyq EXCEPT ![q] = Append(@, NewEntry(l, path, immediate))]
            /\ last' = Call(q, l, path, immediate, "enqueued")
            /\ probe' = IF SelfCheckRuns(q, immediate) THEN p ELSE NoProbe
    /\ UNCHANGED <<ds, initializing>>

Queued(f) == Len(f["DIREVENTS"]) + Len(f["EXTRA"]) + Len(f["RETRY"])

\* a notify call with its arguments from Q, E and BOOLEAN; fopen and
\* localnodebypath are only called, with a result in P, when the self-check runs
Notify(Q, E, P) ==
    /\ \E q \in Q, e \in E, immediate \in BOOLEAN :
         IF ~TailMatches(q, e[1], e[2]) /\ SelfCheckRuns(q, immediate)
         THEN \E p \in P : notify(q, e[1], e[2], immediate, p)
         ELSE notify(q, e[1], e[2], immediate, NoProbe)
    /\ Queued(notifyq') <= MaxQueued
    /\ UNCHANGED <<nameVars, fileVars, threadVars, callVars>>

\* Waiter::ds advances
Tick ==
    /\ ds < MaxDs
    /\ ds' = ds + 1
    /\ UNCHANGED <<notifyq, initializing, syncactivity, last, probe, nameVars, fileVars, threadVars, callVars>>

\* the initial subtree scan completes
FinishScan ==
    /\ initializing
    /\ initializing' = FALSE
    /\ UNCHANGED <<notifyq, ds, syncactivity, last, probe, nameVars, fileVars, threadVars, callVars>>

(***************************************************************************)
(* FileAccess and AsyncIOContext.  The operations work on a record m of    *)
(* the FileAccess fields, the system handle and the system calls made so   *)
(* far; the system calls themselves are the platform's (sysstat, sysopen,  *)
(* sysread, sysclose are pure virtual here) and take their outcome from    *)
(* env.                                                                    *)
(***************************************************************************)
\* the file as first seen, then touched (mtime changes), then appended to
DiskStates ==
    {[mtime |-> 1, size |-> 1], [mtime |-> 2, size |-> 1], [mtime |-> 2, size |-> 2]}

\* what the platform answers during one operation: the first system call that
\* fails, if any, and whether that failure is transient
Envs ==
    {[fail |-> "none", transient |-> FALSE]} \cup
    [fail : {"stat", "open", "read"}, transient : BOOLEAN]
StatOk(env) == env.fail # "stat"
OpenOk(env) == env.fail # "open"
ReadOk(env) == env.fail # "read"
\* the answers an operation making the system calls in S can tell apart
EnvsFor(S) == {e \in Envs : e.fail \in S \cup {"none"}}

\* FileAccess::FileAccess, lines 256-261: nothing has been opened; the
\* constructor leaves mtime and size unset, so they hold any value d
NewFileAccess(d) ==
    [nonblocking |-> FALSE, mtime |-> d.mtime, size |-> d.size, retry |-> FALSE,
     isAsyncOpened |-> FALSE, numAsyncReads |-> 0]

\* calls lists, in order, the system calls made and the returns of openf and
\* the calls of closef; dst is the string fread reads into, with its len and pad
Machine ==
    [fa |-> fa, handle |-> handle, calls |-> <<>>, dst |-> <<>>, len |-> 0, pad |-> 0]

\* sysstat: reports success or failure; a failure sets retry for transient errors
SysStat(m, env) ==
    [m EXCEPT !.calls = Append(@, IF StatOk(env) THEN "sysstat:ok" ELSE "sysstat:fail"),
              !.fa.retry = IF StatOk(env) THEN @ ELSE env.transient]

\* sysopen(async): opens the system handle
SysOpen(m, env, async) ==
    [m |-> [m EXCEPT !.calls = Append(@, (IF async THEN "sysopen_async" ELSE "sysopen")
                                          \o (IF OpenOk(env) THEN ":ok" ELSE ":fail")),
                     !.handle = OpenOk(env),
                     !.fa.retry = IF OpenOk(env) THEN @ ELSE env.transient],
     ret |-> OpenOk(env)]

\* sysclose: closes the system handle
SysClose(m) == [m EXCEPT !.calls = Append(@, "sysclose"), !.handle = FALSE]

\* sysread: reads through the system handle
SysRead(m, env) ==
    [m |-> [m EXCEPT !.calls = Append(@, IF ReadOk(env) THEN "sysread:ok" ELSE "sysread:fail")],
     ret |-> ReadOk(env)]

\* lines 270-276: remember the name (deferred mode), stat into mtime and size
fopen(m, env) ==
    LET s == SysStat([m EXCEPT !.fa.nonblocking = TRUE], env)
    IN  [m |-> IF StatOk(env)
               THEN [s EXCEPT !.fa.mtime = disk.mtime, !.fa.size = disk.size]
               ELSE s,
         ret |-> StatOk(env)]

\* lines 303-309: the file changed since fopen
\* mutant of Stale: the file is found changed at every check
StaleAlways(m) == TRUE
Stale(m) == disk.mtime # m.fa.mtime \/ disk.size # m.fa.size
\* mutant of MarkStale: the cached mtime and size are kept
MarkStaleKeepsCache(m) == [m EXCEPT !.fa.retry = FALSE]
MarkStale(m) ==
    [m EXCEPT !.fa.mtime = disk.mtime, !.fa.size = disk.size, !.fa.retry = FALSE]

\* lines 285-312
openf(m, env) ==
    LET o == IF ~m.fa.nonblocking THEN [m |-> m, ret |-> TRUE]
             ELSE LET s == SysStat(m, env)
                  IN  IF ~StatOk(env) THEN [m |-> s, ret |-> FALSE]
                      ELSE IF Stale(s) THEN [m |-> MarkStale(s), ret |-> FALSE]
                      ELSE SysOpen(s, env, FALSE)
    IN  [m |-> [o.m EXCEPT !.calls = Append(@, IF o.ret THEN "openf:true" ELSE "openf:false")],
         ret |-> o.ret]

\* lines 314-320
closef(m) ==
    LET n == [m EXCEPT !.calls = Append(@, "closef")]
    IN  IF n.fa.nonblocking THEN SysClose(n) ELSE n

\* lines 356-398
asyncopenf(m, env) ==
    LET n == [m EXCEPT !.fa.numAsyncReads = @ + 1]
    IN  IF ~n.fa.nonblocking THEN [m |-> n, ret |-> TRUE]
        ELSE IF n.fa.isAsyncOpened THEN [m |-> n, ret |-> TRUE]
        ELSE LET s == SysStat(n, env)
             IN  IF ~StatOk(env) THEN [m |-> s, ret |-> FALSE]
                 ELSE IF Stale(s) THEN [m |-> MarkStale(s), ret |-> FALSE]
                 ELSE LET o == SysOpen(s, env, TRUE)
                      IN  [m |-> IF o.ret THEN [o.m EXCEPT !.fa.isAsyncOpened = TRUE]
                                 ELSE o.m,
                           ret |-> o.ret]

\* mutant of asyncclosef: isAsyncOpened is not reset when the handle is closed
asyncclosefKeepsOpened(m) ==
    LET n == [m EXCEPT !.fa.numAsyncReads = @ - 1]
    IN  IF n.fa.isAsyncOpened /\ n.fa.numAsyncReads = 0 THEN SysClose(n) ELSE n

\* lines 400-409
asyncclosef(m) ==
    LET n == [m EXCEPT !.fa.numAsyncReads = @ - 1]
    IN  IF n.fa.isAsyncOpened /\ n.fa.numAsyncReads = 0
        THEN SysClose([n EXCEPT !.fa.isAsyncOpened = FALSE])
        ELSE n

\* the bytes of a string: read from the file, left over from an earlier use,
\* and zero
DataByte == 7
StaleByte == 9

\* dst->resize(n): cut to n bytes, or filled up to n bytes with zero bytes
Resize(dst, n) ==
    [i \in 1..n |-> IF i <= Len(dst) THEN dst[i] ELSE 0]

\* a successful sysread has stored len bytes at the front of dst
Stored(dst, len) == [i \in 1..Len(dst) |-> IF i <= len THEN DataByte ELSE dst[i]]

\* memset((char*)dst->data() + len, 0, pad)
Memset0(dst, len, pad) ==
    [i \in 1..Len(dst) |-> IF i > len /\ i <= len + pad THEN 0 ELSE dst[i]]

\* mutant of fread: the pad bytes are not cleared
freadNoPad(m, env, dst, len, pad) ==
    LET o == openf([m EXCEPT !.dst = dst, !.len = len, !.pad = pad], env)
    IN  IF ~o.ret THEN [m |-> o.m, ret |-> FALSE]
        ELSE LET d == [o.m EXCEPT !.dst = Resize(@, len + pad)]
                 r == SysRead(d, env)
                 f == IF r.ret
                      THEN [r.m EXCEPT !.dst = Stored(@, len)]
                      ELSE r.m
             IN  [m |-> closef(f), ret |-> r.ret]

\* lines 518-537
fread(m, env, dst, len, pad) ==
    LET o == openf([m EXCEPT !.dst = dst, !.len = len, !.pad = pad], env)
    IN  IF ~o.ret THEN [m |-> o.m, ret |-> FALSE]
        ELSE LET d == [o.m EXCEPT !.dst = Resize(@, len + pad)]
                 r == SysRead(d, env)
                 f == IF r.ret
                      THEN [r.m EXCEPT !.dst = Memset0(Stored(@, len), len, pad)]
                      ELSE r.m
             IN  [m |-> closef(f), ret |-> r.ret]

\* lines 539-554
frawread(m, env, caller_opened) ==
    LET o == IF caller_opened THEN [m |-> m, ret |-> TRUE] ELSE openf(m, env)
    IN  IF ~o.ret THEN [m |-> o.m, ret |-> FALSE]
        ELSE LET r == SysRead(o.m, env)
             IN  [m |-> IF caller_opened THEN r.m ELSE closef(r.m), ret |-> r.ret]

\* AsyncIOContext::AsyncIOContext (lines 556-571) and the fields the async
\* family sets before starting the operation: op, userCallback = asyncopfinished.
\* by names the function that created the context; callbacks counts the calls
\* of userCallback and trace lists, in order, the completion flag being set
\* ("finished") and the callback being called ("callback").
NewContext(op, by) ==
    [op |-> op, by |-> by, finished |-> FALSE, failed |-> FALSE, retry |-> FALSE,
     hascallback |-> TRUE, callbacks |-> 0, trace |-> <<>>]

\* context->userCallback(context->userData)
Callback(c) == [c EXCEPT !.callbacks = @ + 1, !.trace = Append(@, "callback")]

\* the context completes: failed and retry as given, finished = true, and then
\* the callback
Complete(c, failed, retry) ==
    Callback([c EXCEPT !.failed = failed, !.retry = retry, !.finished = TRUE,
                       !.trace = Append(@, "finished")])

\* mutant of AsyncSysFail: the base operation reports success
AsyncSysSucceeds(c) ==
    LET d == [c EXCEPT !.failed = FALSE, !.retry = FALSE, !.finished = TRUE,
                       !.trace = Append(@, "finished")]
    IN  IF d.hascallback THEN Callback(d) ELSE d

\* lines 432-441, 473-482, 502-511: asyncsysopen, asyncsysread, asyncsyswrite
AsyncSysFail(c) ==
    LET d == [c EXCEPT !.failed = TRUE, !.retry = FALSE, !.finished = TRUE,
                       !.trace = Append(@, "finished")]
    IN  IF d.hascallback THEN Callback(d) ELSE d

\* lines 331-354: asyncfopen(LocalPath&)
asyncfopen(m, env) ==
    LET o == fopen(m, env)
    IN  [m |-> o.m,
         c |-> Complete(NewContext("OPEN", "asyncfopen"), ~o.ret, o.m.fa.retry)]

\* lines 411-430: asyncfopen(LocalPath&, bool, bool, m_off_t)
asyncfopen4(m) ==
    [m |-> m, c |-> AsyncSysFail(NewContext("OPEN", "asyncfopen4"))]

\* mutant of asyncfread: the return after a failed asyncopenf is missing
asyncfreadFallsThrough(m, env) ==
    LET o == asyncopenf(m, env)
        c == NewContext("READ", "asyncfread")
    IN  IF ~o.ret
        THEN [m |-> o.m, c |-> AsyncSysFail(Complete(c, TRUE, o.m.fa.retry))]
        ELSE [m |-> o.m, c |-> AsyncSysFail(c)]

\* lines 443-471
asyncfread(m, env) ==
    LET o == asyncopenf(m, env)
        c == NewContext("READ", "asyncfread")
    IN  IF ~o.ret
        THEN [m |-> o.m, c |-> Complete(c, TRUE, o.m.fa.retry)]
        ELSE [m |-> o.m, c |-> AsyncSysFail(c)]

\* lines 484-500
asyncfwrite(m) ==
    [m |-> m, c |-> AsyncSysFail(NewContext("WRITE", "asyncfwrite"))]

\* lines 573-582: ~AsyncIOContext of a completed context (finish returns at once)
destroy(m, c) == IF c.op = "READ" THEN asyncclosef(m) ELSE m

NoContext == NewContext("NONE", "")

\* operation o ended in the stale branch of openf (lines 303-309) or of
\* asyncopenf (lines 382-388): the stat succeeded and no open followed
StaleFailure(o) ==
    \/ o.op \in {"openf", "fread", "frawread"} /\ o.calls = <<"sysstat:ok", "openf:false">>
    \/ o.op = "asyncfread" /\ o.calls = <<"sysstat:ok">>

\* reopened tells whether this operation called sysopen right after an
\* operation that ended in a stale branch
Op(opname, m, ret, c) ==
    [op |-> opname, calls |-> m.calls, ret |-> ret, ctx |-> c,
     dst |-> m.dst, len |-> m.len, pad |-> m.pad,
     reopened |-> /\ StaleFailure(lastop)
                  /\ \E i \in 1..Len(m.calls) :
                        m.calls[i] \in {"sysopen:ok", "sysopen:fail",
                                        "sysopen_async:ok", "sysopen_async:fail"}]
NoOp ==
    [op |-> "", calls |-> <<>>, ret |-> TRUE, ctx |-> NoContext,
     dst |-> <<>>, len |-> 0, pad |-> 0, reopened |-> FALSE]

\* the effect of a synchronous operation with outcome o
Sync(opname, o) ==
    /\ fa' = o.m.fa
    /\ handle' = o.m.handle
    /\ lastop' = Op(opname, o.m, o.ret, NoContext)
    /\ UNCHANGED <<disk, ctxs, waiter, nameVars, notifyVars, threadVars, callVars>>

\* the effect of an operation that returns the new context o.c; the callback
\* asyncopfinished (lines 322-329) notifies the waiter
Async(opname, o) ==
    /\ BagCardinality(ctxs) < MaxContexts
    /\ fa' = o.m.fa
    /\ handle' = o.m.handle
    /\ ctxs' = ctxs (+) SetToBag({o.c})
    /\ waiter' = (waiter \/ o.c.callbacks > 0)
    /\ lastop' = Op(opname, o.m, TRUE, o.c)
    /\ UNCHANGED <<disk, nameVars, notifyVars, threadVars, callVars>>

Fopen == \E env \in EnvsFor({"stat"}) : Sync("fopen", fopen(Machine, env))
Openf == \E env \in EnvsFor({"stat", "open"}) : Sync("openf", openf(Machine, env))
Closef == Sync("closef", [m |-> closef(Machine), ret |-> TRUE])
\* fread of one byte and two bytes of padding into a string that has been used
Fread ==
    \E env \in Envs, dst \in {<<StaleByte, StaleByte, StaleByte, StaleByte>>} :
        Sync("fread", fread(Machine, env, dst, 1, 2))
Frawread ==
    \E env \in Envs, caller_opened \in BOOLEAN :
        Sync(IF caller_opened THEN "frawread caller_opened" ELSE "frawread",
             frawread(Machine, env, caller_opened))
AsyncFopen == \E env \in EnvsFor({"stat"}) : Async("asyncfopen", asyncfopen(Machine, env))
AsyncFopen4 == Async("asyncfopen4", asyncfopen4(Machine))
AsyncFread ==
    \E env \in EnvsFor({"stat", "open"}) : Async("asyncfread", asyncfread(Machine, env))
AsyncFwrite == Async("asyncfwrite", asyncfwrite(Machine))

\* delete a live context c
DestroyContext ==
    \E c \in BagToSet(ctxs) :
        LET m == destroy(Machine, c)
        IN  /\ c.finished
            /\ fa' = m.fa
            /\ handle' = m.handle
            /\ ctxs' = ctxs (-) SetToBag({c})
            /\ lastop' = Op("destroy", m, TRUE, NoContext)
            /\ UNCHANGED <<disk, waiter, nameVars, notifyVars, threadVars, callVars>>

\* somebody else modifies the file
Modify ==
    /\ \E d \in DiskStates \ {disk} : disk' = d
    /\ UNCHANGED <<fa, handle, lastop, ctxs, waiter, nameVars, notifyVars, threadVars, callVars>>

(***************************************************************************)
(* A platform with a native asynchronous backend.  asyncsysopen,           *)
(* asyncsysread and asyncsyswrite are virtual: the platform's versions     *)
(* start the operation and return with the context pending; the backend    *)
(* completes it later, on another execution context, by setting the        *)
(* completion flag and then calling userCallback (asyncopfinished, which   *)
(* notifies the waiter).  The engine thread is the only one that waits on  *)
(* the waiter; a notification stays pending until a wait consumes it.      *)
(* ~AsyncIOContext and finish run on the engine thread, one step per       *)
(* statement.                                                              *)
(***************************************************************************)
\* the platform's asyncsysopen / asyncsysread / asyncsyswrite: started, pending
AsyncSysStart(c) == c

\* asyncfopen(LocalPath&, bool, bool, m_off_t), asyncfread and asyncfwrite
\* (lines 411-430, 443-471, 484-500) over the native backend
nativeasyncfopen4(m) ==
    [m |-> m, c |-> AsyncSysStart(NewContext("OPEN", "asyncfopen4"))]

nativeasyncfread(m, env) ==
    LET o == asyncopenf(m, env)
        c == NewContext("READ", "asyncfread")
    IN  IF ~o.ret
        THEN [m |-> o.m, c |-> Complete(c, TRUE, o.m.fa.retry)]
        ELSE [m |-> o.m, c |-> AsyncSysStart(c)]

nativeasyncfwrite(m) ==
    [m |-> m, c |-> AsyncSysStart(NewContext("WRITE", "asyncfwrite"))]

\* the engine thread: pc is its position in ~AsyncIOContext / finish,
\* hadToWait what the test at line 586 found, waited whether wait() was
\* called, notified how often finish called waiter->notify()
Idle == [pc |-> "idle", hadToWait |-> FALSE, waited |-> FALSE, notified |-> 0]

\* mutant of MustWait: finish does not look at the completion flag
MustWaitNever(c) == FALSE

\* lines 586 and 588: !finished
MustWait(c) == ~c.finished

NativeAsyncFopen4 ==
    /\ thread.pc = "idle"
    /\ Async("asyncfopen4", nativeasyncfopen4(Machine))

NativeAsyncFread ==
    /\ thread.pc = "idle"
    /\ \E env \in EnvsFor({"stat", "open"}) :
         Async("asyncfread", nativeasyncfread(Machine, env))

NativeAsyncFwrite ==
    /\ thread.pc = "idle"
    /\ Async("asyncfwrite", nativeasyncfwrite(Machine))

NativeFopen ==
    /\ thread.pc = "idle"
    /\ Fopen

\* the contexts the backend can act on: the live ones and the one being
\* destroyed.  Put(c, d, where) replaces c by d
Put(c, d, where) ==
    IF where = "dying"
    THEN dying' = d /\ UNCHANGED ctxs
    ELSE ctxs' = (ctxs (-) SetToBag({c})) (+) SetToBag({d}) /\ UNCHANGED dying
Known ==
    {<<c, "live">> : c \in BagToSet(ctxs)} \cup
    (IF thread.pc # "idle" THEN {<<dying, "dying">>} ELSE {})

\* the backend completes a pending operation: finished = true.  Neither finish
\* nor the destructor reads failed or retry; the operations here succeed.
BackendFinish ==
    /\ \E k \in Known :
         /\ ~k[1].finished
         /\ Put(k[1], [k[1] EXCEPT !.failed = FALSE, !.finished = TRUE,
                                   !.trace = Append(@, "finished")], k[2])
    /\ UNCHANGED <<fa, disk, handle, lastop, waiter, thread,
                   nameVars, notifyVars, callVars>>

\* ... and then calls userCallback: asyncopfinished, lines 322-329
BackendCallback ==
    /\ \E k \in Known :
         /\ k[1].finished /\ k[1].callbacks = 0
         /\ Put(k[1], Callback(k[1]), k[2])
    /\ waiter' = TRUE
    /\ UNCHANGED <<fa, disk, handle, lastop, thread, nameVars, notifyVars, callVars>>

\* somebody else notifies the waiter
ExternalNotify ==
    /\ ~waiter
    /\ waiter' = TRUE
    /\ UNCHANGED <<fa, disk, handle, lastop, ctxs, threadVars,
                   nameVars, notifyVars, callVars>>

\* the engine's main loop waits on the waiter and is woken
EngineWait ==
    /\ thread.pc = "idle"
    /\ waiter
    /\ waiter' = FALSE
    /\ UNCHANGED <<fa, disk, handle, lastop, ctxs, threadVars,
                   nameVars, notifyVars, callVars>>

\* delete c: ~AsyncIOContext is entered, line 575
BeginDestroy ==
    /\ thread.pc = "idle"
    /\ \E c \in BagToSet(ctxs) :
         /\ ctxs' = ctxs (-) SetToBag({c})
         /\ dying' = c
    /\ thread' = [Idle EXCEPT !.pc = "finish"]
    /\ UNCHANGED <<fa, disk, handle, lastop, waiter, nameVars, notifyVars, callVars>>

\* line 586: if (!finished)
FinishEnter ==
    /\ thread.pc = "finish"
    /\ thread' = IF MustWait(dying)
                 THEN [thread EXCEPT !.pc = "loop", !.hadToWait = TRUE]
                 ELSE [thread EXCEPT !.pc = "close"]
    /\ UNCHANGED <<fileVars, dying, nameVars, notifyVars, callVars>>

\* line 588: while (!finished); line 590: waiter->init(NEVER)
FinishLoop ==
    /\ thread.pc = "loop"
    /\ thread' = IF MustWait(dying)
                 THEN [thread EXCEPT !.pc = "wait", !.waited = TRUE]
                 ELSE [thread EXCEPT !.pc = "notify"]
    /\ UNCHANGED <<fileVars, dying, nameVars, notifyVars, callVars>>

\* line 591: waiter->wait() returns once the waiter has been notified
FinishWait ==
    /\ thread.pc = "wait"
    /\ waiter
    /\ waiter' = FALSE
    /\ thread' = [thread EXCEPT !.pc = "loop"]
    /\ UNCHANGED <<fa, disk, handle, lastop, ctxs, dying, nameVars, notifyVars, callVars>>

\* mutant of FinishNotify: finish returns without notifying the waiter again
FinishNotifySilent ==
    /\ thread.pc = "notify"
    /\ thread' = [thread EXCEPT !.pc = "close"]
    /\ UNCHANGED <<fileVars, dying, nameVars, notifyVars, callVars>>

\* line 595: waiter->notify()
FinishNotify ==
    /\ thread.pc = "notify"
    /\ waiter' = TRUE
    /\ thread' = [thread EXCEPT !.pc = "close", !.notified = @ + 1]
    /\ UNCHANGED <<fa, disk, handle, lastop, ctxs, dying, nameVars, notifyVars, callVars>>

\* lines 578-581: finish has returned; a READ context releases its reader
DestroyClose ==
    /\ thread.pc = "close"
    /\ LET m == destroy(Machine, dying)
       IN  /\ fa' = m.fa
           /\ handle' = m.handle
           /\ lastop' = Op("destroy", m, TRUE, dying)
    /\ dying' = NoContext
    /\ thread' = [thread EXCEPT !.pc = "idle"]
    /\ UNCHANGED <<disk, ctxs, waiter, nameVars, notifyVars, callVars>>

(***************************************************************************)
(* LocalPath, normalize and captimestamp: one call of a function, with its *)
(* arguments in call and what it returned in returned.                     *)
(***************************************************************************)
\* the bytes local paths are built from: / \ the zero byte and the letter a
PathBytes == {47, 92, 0, 97}

\* fsaccess.localseparator: "/" and the wide "\" (a backslash and a zero byte)
Separators == {<<47>>, <<92, 0>>}

RECURSIVE StringsOver(_, _)
StringsOver(A, n) ==
    IF n = 0 THEN {<<>>}
    ELSE LET shorter == StringsOver(A, n - 1)
         IN  shorter \cup {Append(s, c) : s \in {t \in shorter : Len(t) = n - 1}, c \in A}

\* !memcmp(s.data() + off, r.data(), r.size()); data()[size()] is the
\* terminating zero byte (At)
MemEq(s, off, r) == \A i \in 0..(Len(r) - 1) : At(s, off + i) = r[i + 1]

\* lines 754-760: this->isContainingPathOf(path, fsaccess); with a separator
\* of one or two bytes the bytes compared end at path.data()[path.size()]
isContainingPathOf(this, path, sep) ==
    /\ Len(path) >= Len(this)
    /\ MemEq(path, 0, this)
    /\ (Len(path) = Len(this) \/ MemEq(path, Len(this), sep))

\* the value standing for undefined behaviour: p -= separator size wrapped
\* around (size_t) and memcmp reads far outside the string
Wrapped == -1

\* lines 679-686: the loop of getLeafnameByteIndex, about to test p
RECURSIVE LeafLoop(_, _, _)
LeafLoop(s, sep, p) ==
    IF p = 0 THEN 0
    ELSE IF p < Len(sep) THEN Wrapped
    ELSE LET q == p - Len(sep)
         IN  IF q = 0 THEN 0
             ELSE IF MemEq(s, q, sep) THEN q + Len(sep)
             ELSE LeafLoop(s, sep, q)

\* lines 675-688
getLeafnameByteIndex(s, sep) == LeafLoop(s, sep, Len(s))

\* utf8proc_NFC, an external function bytes -> bytes | failure.  Here the
\* byte 101 followed by the combining byte 204 composes to 195, and the byte
\* 255 is not valid UTF-8.
RECURSIVE Compose(_)
Compose(r) ==
    IF Len(r) < 2 THEN r
    ELSE IF r[1] = 101 /\ r[2] = 204 THEN <<195>> \o Compose(SubSeq(r, 3, Len(r)))
    ELSE <<r[1]>> \o Compose(Tail(r))
utf8proc_NFC(r) ==
    IF \E i \in 1..Len(r) : r[i] = 255
    THEN [ok |-> FALSE, bytes |-> <<>>]
    ELSE [ok |-> TRUE, bytes |-> Compose(r)]

NormalizeBytes == {0, 101, 204, 255}

\* the C string at cfilename + i: the bytes up to the next zero byte
RECURSIVE CString(_, _)
CString(s, i) ==
    IF At(s, i) = 0 THEN <<>> ELSE <<At(s, i)>> \o CString(s, i + 1)

\* mutant of NormalizeLoop: a zero byte is skipped, not copied
RECURSIVE NormalizeLoopDropsNul(_, _, _)
NormalizeLoopDropsNul(s, i, res) ==
    IF ~(i < Len(s)) THEN res
    ELSE IF At(s, i) = 0 THEN NormalizeLoopDropsNul(s, i + 1, res)
    ELSE LET substring == CString(s, i)
             normalized == utf8proc_NFC(substring)
         IN  IF ~normalized.ok THEN <<>>
             ELSE NormalizeLoopDropsNul(s, i + Len(substring), res \o normalized.bytes)

\* lines 132-155: the loop of normalize, about to test i < fnsize
RECURSIVE NormalizeLoop(_, _, _)
NormalizeLoop(s, i, res) ==
    IF ~(i < Len(s)) THEN res
    ELSE IF At(s, i) = 0 THEN NormalizeLoop(s, i + 1, Append(res, 0))
    ELSE LET substring == CString(s, i)
             normalized == utf8proc_NFC(substring)
         IN  IF ~normalized.ok THEN <<>>
             ELSE NormalizeLoop(s, i + Len(substring), res \o normalized.bytes)

\* lines 124-158
normalize(s) == NormalizeLoop(s, 0, <<>>)

\* A signed 64-bit m_time_t as <<h, m, l>>: h its upper 32 bits as a signed
\* number, m and l the two 16-bit halves of its lower 32 bits; its value is
\* h * 2^32 + m * 2^16 + l.
Before(a, b) ==
    \/ a[1] < b[1]
    \/ a[1] = b[1] /\ a[2] < b[2]
    \/ a[1] = b[1] /\ a[2] = b[2] /\ a[3] < b[3]
Time0 == <<0, 0, 0>>
\* (uint32_t)-1 converted to m_time_t: 2^32 - 1
TimeCap == <<0, 65535, 65535>>
Times ==
    {-2147483647 - 1, -2147483647, -1, 0, 1, 2147483647} \X {0, 1, 65534, 65535}
                                                       \X {0, 1, 65534, 65535}

\* mutant of captimestamp: negative timestamps are left alone
captimestampUpperOnly(t) == IF Before(TimeCap, t) THEN TimeCap ELSE t

\* lines 39-44
captimestamp(t) ==
    IF Before(TimeCap, t) THEN TimeCap
    ELSE IF Before(t, Time0) THEN Time0
    ELSE t

\* lines 690-694 and 696-700: backEqual(bytePos, compareTo), for a string and
\* for a LocalPath; memcmp returns non-zero when the bytes differ
backEqual(localpath, bytePos, compareTo) ==
    /\ bytePos + Len(compareTo) = Len(localpath)
    /\ ~MemEq(localpath, bytePos, compareTo)

NoArgs ==
    [fn |-> "", this |-> <<>>, path |-> <<>>, sep |-> <<>>, t |-> Time0, bytePos |-> 0]
NoResult == [done |-> FALSE, bool |-> FALSE, index |-> 0, bytes |-> <<>>, t |-> Time0]
Done == [NoResult EXCEPT !.done = TRUE]

IsContainingPathOf ==
    /\ call.fn = "isContainingPathOf" /\ ~returned.done
    /\ returned' = [Done EXCEPT
                    !.bool = isContainingPathOf(call.this, call.path, call.sep)]
    /\ UNCHANGED <<call, nameVars, notifyVars, fileVars, threadVars>>

\* where getLeafnameByteIndex runs into undefined behaviour it returns
\* anything (or faults: index -1)
GetLeafnameByteIndex ==
    /\ call.fn = "getLeafnameByteIndex" /\ ~returned.done
    /\ LET p == getLeafnameByteIndex(call.path, call.sep)
       IN  \E r \in (IF p = Wrapped THEN -1..(Len(call.path) + 1) ELSE {p}) :
               returned' = [Done EXCEPT !.index = r]
    /\ UNCHANGED <<call, nameVars, notifyVars, fileVars, threadVars>>

Normalize ==
    /\ call.fn = "normalize" /\ ~returned.done
    /\ returned' = [Done EXCEPT !.bytes = normalize(call.path)]
    /\ UNCHANGED <<call, nameVars, notifyVars, fileVars, threadVars>>

Captimestamp ==
    /\ call.fn = "captimestamp" /\ ~returned.done
    /\ returned' = [Done EXCEPT !.t = captimestamp(call.t)]
    /\ UNCHANGED <<call, nameVars, notifyVars, fileVars, threadVars>>

BackEquals == {"backEqual(size_t, const string&)", "backEqual(size_t, const LocalPath&)"}

BackEqual ==
    /\ call.fn \in BackEquals /\ ~returned.done
    /\ returned' = [Done EXCEPT !.bool = backEqual(call.this, call.bytePos, call.path)]
    /\ UNCHANGED <<call, nameVars, notifyVars, fileVars, threadVars>>

\* the calls made: every pair of paths, path, name and timestamp in the bounds
MakesCall ==
    \/ \E a \in StringsOver(PathBytes, MaxPathLen - 1),
          b \in StringsOver(PathBytes, MaxPathLen), sep \in Separators :
            call = [NoArgs EXCEPT !.fn = "isContainingPathOf",
                                  !.this = a, !.path = b, !.sep = sep]
    \/ \E b \in StringsOver(PathBytes, MaxPathLen), sep \in Separators :
            call = [NoArgs EXCEPT !.fn = "getLeafnameByteIndex", !.path = b, !.sep = sep]
    \/ \E b \in StringsOver(NormalizeBytes, MaxPathLen) :
            call = [NoArgs EXCEPT !.fn = "normalize", !.path = b]
    \/ \E t \in Times :
            call = [NoArgs EXCEPT !.fn = "captimestamp", !.t = t]
    \/ \E f \in BackEquals, a \in StringsOver(PathBytes, MaxPathLen - 1),
          p \in 0..MaxPathLen, b \in StringsOver(PathBytes, MaxPathLen - 1) :
            call = [NoArgs EXCEPT !.fn = f, !.this = a, !.bytePos = p, !.path = b]

(***************************************************************************)
(* Initial states and specifications.                                      *)
(***************************************************************************)
NameInit0 == name = <<>> /\ orig = <<>> /\ stage = "name"
ThreadInit0 == thread = Idle /\ dying = NoContext
CallInit0 == call = NoArgs /\ returned = NoResult
NotifyInit0 ==
    /\ notifyq = [q \in Queues |-> <<>>]
    /\ ds = 1
    /\ initializing = TRUE
    /\ syncactivity = FALSE
    /\ last = NoCall
    /\ probe = NoProbe
FileInit0 ==
    /\ fa \in {NewFileAccess(d) : d \in DiskStates}
    /\ disk = [mtime |-> 1, size |-> 1]
    /\ handle = FALSE
    /\ lastop = NoOp
    /\ ctxs = EmptyBag
    /\ waiter = FALSE

InitName ==
    /\ name \in StringsUpTo(MaxNameLen)
    /\ orig = name
    /\ stage = "name"
    /\ NotifyInit0 /\ FileInit0 /\ fa = NewFileAccess(disk)
    /\ ThreadInit0 /\ CallInit0
NextName == DoName2Local \/ DoLocal2Name \/ DoEscape \/ DoEscapeAgain
SpecName == InitName /\ [][NextName]_vars

InitNotify ==
    /\ NameInit0 /\ NotifyInit0 /\ FileInit0 /\ fa = NewFileAccess(disk)
    /\ ThreadInit0 /\ CallInit0
NextNotify == Notify(Queues, Events, SampleProbes) \/ Tick \/ FinishScan
SpecNotify == InitNotify /\ [][NextNotify]_vars

\* the self-check against every probe, for one event on the directory-events queue
InitSelfCheck ==
    /\ NameInit0 /\ NotifyInit0 /\ FileInit0 /\ fa = NewFileAccess(disk)
    /\ ThreadInit0 /\ CallInit0
NextSelfCheck == Notify({"DIREVENTS"}, {<<"l1", "a">>}, AllProbes) \/ Tick \/ FinishScan
SpecSelfCheck == InitSelfCheck /\ [][NextSelfCheck]_vars

InitFile == NameInit0 /\ NotifyInit0 /\ FileInit0 /\ ThreadInit0 /\ CallInit0
NextFile ==
    \/ Fopen \/ Openf \/ Closef \/ Fread \/ Frawread
    \/ AsyncFopen \/ AsyncFopen4 \/ AsyncFread \/ AsyncFwrite
    \/ DestroyContext \/ Modify
SpecFile == InitFile /\ [][NextFile]_vars

\* FileAccess over a native backend: the engine thread issues operations and
\* destroys contexts, the backend completes them.  The engine thread keeps
\* running, wait() returns once the waiter is notified, and the backend
\* completes every operation it started and then calls the callback.
InitNative ==
    /\ NameInit0 /\ NotifyInit0 /\ FileInit0 /\ fa = NewFileAccess(disk)
    /\ ThreadInit0 /\ CallInit0
NextNative ==
    \/ NativeFopen \/ NativeAsyncFopen4 \/ NativeAsyncFread \/ NativeAsyncFwrite
    \/ BackendFinish \/ BackendCallback \/ ExternalNotify \/ EngineWait
    \/ BeginDestroy \/ FinishEnter \/ FinishLoop \/ FinishWait \/ FinishNotify
    \/ DestroyClose
SpecNative ==
    /\ InitNative /\ [][NextNative]_vars
    /\ WF_vars(FinishEnter) /\ WF_vars(FinishLoop) /\ WF_vars(FinishWait)
    /\ WF_vars(FinishNotify) /\ WF_vars(DestroyClose)
    /\ WF_vars(BackendFinish) /\ WF_vars(BackendCallback)

\* single calls of the functions of LocalPath and FileSystemAccess
InitCalls ==
    /\ NameInit0 /\ NotifyInit0 /\ FileInit0 /\ fa = NewFileAccess(disk)
    /\ ThreadInit0
    /\ MakesCall
    /\ returned = NoResult
NextCalls ==
    \/ IsContainingPathOf \/ GetLeafnameByteIndex \/ Normalize \/ Captimestamp
    \/ BackEqual
SpecCalls == InitCalls /\ [][NextCalls]_vars

(***************************************************************************)
(* Claims about the name conversions (SpecName).                           *)
(***************************************************************************)
\* C1: for every presentation string x, local2name(name2local(x)) = x: once
\* the name has been converted to the local encoding and back it equals the
\* string the run started from.
C1_RoundTrip == stage = "back" => name = orig

(***************************************************************************)
(* Claims about DirNotify::notify (SpecNotify, SpecSelfCheck).             *)
(***************************************************************************)
\* the step is a notify call; last' describes it
NotifyStep == last'.turn # last.turn

SameEvent(entry, c) == entry.localnode = c.localnode /\ entry.path = c.path

\* the entry before the tail of queue is for another event than c
OneAtTail(queue, c) ==
    Len(queue) = 1 \/ ~SameEvent(queue[Len(queue) - 1], c)

\* two non-immediate calls for the same event on the same merging queue, the
\* first (last) not suppressed, the second (last') the step being taken
TwoInSuccession ==
    /\ NotifyStep
    /\ last.result \in {"merged", "enqueued"}
    /\ last.q \in {"DIREVENTS", "EXTRA"}
    /\ last'.q = last.q
    /\ last'.localnode = last.localnode /\ last'.path = last.path
    /\ ~last.immediate /\ ~last'.immediate

\* C2 as stated: after notify(Q, n, p, false) twice in succession on DIREVENTS
\* or EXTRA there is exactly one entry for (n, p) at the tail of Q and its
\* timestamp is the debounce clock read at the second call.
C2_Original ==
    [][TwoInSuccession =>
        LET q == last'.q
        IN  /\ Len(notifyq'[q]) = Len(notifyq[q])
            /\ SameEvent(Back(notifyq'[q]), last')
            /\ OneAtTail(notifyq'[q], last')
            /\ Back(notifyq'[q]).timestamp = ds']_vars

\* C2 as amended: the same, but the timestamp is the clock read at the second
\* call only if the tail entry's timestamp was not 0; an entry marked immediate
\* (timestamp 0) keeps 0.
C2_TwiceOneEntry ==
    [][TwoInSuccession =>
        LET q == last'.q
        IN  /\ Len(notifyq'[q]) = Len(notifyq[q])
            /\ SameEvent(Back(notifyq'[q]), last')
            /\ OneAtTail(notifyq'[q], last')
            /\ Back(notifyq'[q]).timestamp =
                 IF Back(notifyq[q]).timestamp # 0 THEN ds' ELSE 0]_vars

\* a second non-immediate call has refreshed the tail to a later clock value
C2_Witness ==
    /\ last.result = "merged" /\ ~last.immediate
    /\ ds > 1
    /\ Back(notifyq[last.q]).timestamp = ds

\* an immediate call on a queue whose tail is a non-immediate entry for the
\* same event
ImmediateOnPending ==
    /\ NotifyStep
    /\ last'.immediate
    /\ Len(notifyq[last'.q]) > 0
    /\ SameEvent(Back(notifyq[last'.q]), last')
    /\ Back(notifyq[last'.q]).timestamp # 0

ImmediateMerged ==
    LET q == last'.q
    IN  /\ Len(notifyq'[q]) = Len(notifyq[q])
        /\ SameEvent(Back(notifyq'[q]), last')
        /\ OneAtTail(notifyq'[q], last')
        /\ Back(notifyq'[q]).timestamp = 0

\* C3 as stated: notify(Q, n, p, true) on any queue Q whose tail is a
\* non-immediate entry for (n, p) leaves the length of Q unchanged, with one
\* entry for (n, p) at the tail and its timestamp 0.
C3_Original == [][ImmediateOnPending => ImmediateMerged]_vars

\* C3 as amended: the same for Q being DIREVENTS or EXTRA (on any other queue
\* the call appends a second entry).
C3_ImmediateOverrides ==
    [][ImmediateOnPending /\ last'.q \in {"DIREVENTS", "EXTRA"} => ImmediateMerged]_vars

\* an immediate call has been merged into an entry that is now immediate
C3_Witness ==
    /\ last.result = "merged" /\ last.immediate
    /\ Back(notifyq[last.q]).timestamp = 0
    /\ syncactivity

\* a call for the event the tail of its queue already refers to
CallOnSameTail ==
    /\ NotifyStep
    /\ Len(notifyq[last'.q]) > 0
    /\ SameEvent(Back(notifyq[last'.q]), last')

\* C4 as stated: whenever the most recent entry of Q refers to the same (n, p),
\* no entry is enqueued and the tail's timestamp becomes 0 if immediate and the
\* current clock tick otherwise, whatever it was before.
C4_Original ==
    [][CallOnSameTail =>
        LET q == last'.q
        IN  /\ Len(notifyq'[q]) = Len(notifyq[q])
            /\ Back(notifyq'[q]).timestamp = IF last'.immediate THEN 0 ELSE ds']_vars

\* C4 as amended: for Q being DIREVENTS or EXTRA no entry is enqueued, and the
\* tail's timestamp becomes 0 if immediate or if it was 0 before, and the
\* current clock tick otherwise.
C4_TailMerge ==
    [][CallOnSameTail /\ last'.q \in {"DIREVENTS", "EXTRA"} =>
        LET q == last'.q
        IN  /\ Len(notifyq'[q]) = Len(notifyq[q])
            /\ Back(notifyq'[q]).timestamp =
                 IF last'.immediate \/ Back(notifyq[q]).timestamp = 0
                 THEN 0 ELSE ds']_vars

\* a non-immediate call has been merged into an immediate entry, which stays 0
C4_Witness ==
    /\ last.result = "merged" /\ ~last.immediate
    /\ Back(notifyq[last.q]).timestamp = 0

\* a non-immediate call on the directory-events queue after the initial scan,
\* not merged into the tail
SelfChecked ==
    /\ NotifyStep
    /\ ~last'.immediate /\ last'.q = "DIREVENTS" /\ ~initializing
    /\ last'.result # "merged"

\* C5 (a): the node is absent and the stat fails non-retryably
KnownDeleted(p) == ~p.ll.exists /\ ~p.stat.success /\ ~p.stat.retry

\* C5 (b) as stated: fsid, mtime and size are compared for every node
UnchangedAsStated(p) ==
    /\ p.ll.exists /\ p.stat.success
    /\ p.ll.node.exists /\ p.ll.node.localnode = "ll"
    /\ p.ll.node.hasname /\ p.ll.node.name = p.ll.name
    /\ p.stat.fsid = p.ll.fsid
    /\ p.stat.mtime = p.ll.mtime /\ p.stat.size = p.ll.size
    /\ (p.ll.type = "FILENODE" => p.ll.fp = p.ll.node.fp)

\* C5 (b) as amended: the stat must also report a valid fsid and the node's
\* type, and mtime and size are compared for file nodes only
UnchangedAsAmended(p) ==
    /\ p.ll.exists /\ p.stat.success
    /\ p.ll.node.exists /\ p.ll.node.localnode = "ll"
    /\ p.ll.node.hasname /\ p.ll.node.name = p.ll.name
    /\ p.stat.fsidvalid /\ p.stat.fsid = p.ll.fsid
    /\ p.stat.type = p.ll.type
    /\ (p.ll.type = "FILENODE" =>
          /\ p.stat.mtime = p.ll.mtime /\ p.stat.size = p.ll.size
          /\ p.ll.fp = p.ll.node.fp)

\* C5 as stated: the event is dropped if and only if (a) or (b) holds; any
\* mismatch, a differing mtime or size on a folder node included, enqueues it.
C5_Original ==
    [][SelfChecked =>
        /\ (last'.result = "suppressed") <=>
               (KnownDeleted(probe') \/ UnchangedAsStated(probe'))
        /\ (last'.result = "enqueued") <=>
               (Len(notifyq'["DIREVENTS"]) = Len(notifyq["DIREVENTS"]) + 1)]_vars

\* C5 as amended: the event is dropped if and only if (a) holds or (b) holds
\* with the stat reporting a valid fsid and the node's type, and mtime and size
\* compared for file nodes only; otherwise it is enqueued.
C5_SelfSuppression ==
    [][SelfChecked =>
        /\ (last'.result = "suppressed") <=>
               (KnownDeleted(probe') \/ UnchangedAsAmended(probe'))
        /\ (last'.result = "enqueued") <=>
               (Len(notifyq'["DIREVENTS"]) = Len(notifyq["DIREVENTS"]) + 1)]_vars

\* an event on a folder whose mtime and size changed on disk was dropped
C5_Witness ==
    /\ last.result = "suppressed"
    /\ probe.ll.exists /\ probe.ll.type = "FOLDERNODE"
    /\ probe.stat.mtime # probe.ll.mtime /\ probe.stat.size # probe.ll.size
    /\ notifyq["DIREVENTS"] = <<>>

\* C6: after any notify(Q, n, p, immediate) with immediate = true or with the
\* sync still initializing, the tail entry of Q refers to (n, p): the call is
\* never dropped as a self-notification.
C6_NeverDropped ==
    [][NotifyStep /\ (last'.immediate \/ initializing) =>
        /\ last'.result # "suppressed"
        /\ Len(notifyq'[last'.q]) > 0
        /\ SameEvent(Back(notifyq'[last'.q]), last')]_vars

\* a non-immediate event was enqueued on the directory-events queue during the
\* initial scan, and an immediate one after it
C6_Witness ==
    /\ Len(notifyq["DIREVENTS"]) = 2
    /\ notifyq["DIREVENTS"][1].timestamp # 0
    /\ initializing
    /\ last.q = "DIREVENTS" /\ last.immediate /\ last.result = "enqueued"

\* queue b is queue a with only the timestamp of its tail entry changed
TailRefreshed(a, b) ==
    /\ Len(b) = Len(a) /\ Len(a) > 0
    /\ \A i \in 1..(Len(a) - 1) : b[i] = a[i]
    /\ Back(b).localnode = Back(a).localnode /\ Back(b).path = Back(a).path

\* C7: a notify call on queue Q leaves every other queue unchanged, and on Q it
\* either changes nothing, or changes only the timestamp of the tail entry (a
\* merge), or appends one entry for its event behind all existing entries.
C7_Frame ==
    [][NotifyStep =>
        /\ \A q \in Queues \ {last'.q} : notifyq'[q] = notifyq[q]
        /\ LET a == notifyq[last'.q]
               b == notifyq'[last'.q]
           IN  CASE last'.result = "suppressed" -> b = a
                 [] last'.result = "merged" -> b = a \/ TailRefreshed(a, b)
                 [] last'.result = "enqueued" ->
                      /\ Len(b) = Len(a) + 1
                      /\ SubSeq(b, 1, Len(a)) = a
                      /\ SameEvent(Back(b), last')
                 [] OTHER -> FALSE]_vars
    /\ [][~NotifyStep => notifyq' = notifyq]_vars

\* a merge refreshed the tail of a queue that holds an older entry in front
C7_Witness ==
    /\ last.result = "merged"
    /\ Len(notifyq[last.q]) = 2
    /\ notifyq[last.q][1].timestamp = 1
    /\ notifyq[last.q][2].timestamp = ds
    /\ ds > 1

(***************************************************************************)
(* Claims about FileAccess and AsyncIOContext (SpecFile).                  *)
(***************************************************************************)
Contexts == BagToSet(ctxs)
Calls(o) == {o.calls[i] : i \in 1..Len(o.calls)}

\* C8: for every AsyncIOContext created by asyncfopen (either overload),
\* asyncfread or asyncfwrite, on every path, the completion callback is called
\* exactly once, right after the completion flag is set and never before it.
C8_CallbackOnce ==
    \A c \in Contexts \cup {lastop.ctx} :
        c.op # "NONE" =>
            /\ c.finished
            /\ c.callbacks = 1
            /\ c.trace = <<"finished", "callback">>

\* asyncfread has returned a context for which asyncopenf failed on the stat,
\* and the waiter was notified
C8_Witness ==
    /\ lastop.op = "asyncfread"
    /\ "sysstat:fail" \in Calls(lastop)
    /\ lastop.ctx \in Contexts
    /\ lastop.ctx.callbacks = 1
    /\ waiter

\* C9 as stated: every context returned by asyncfopen (both overloads),
\* asyncfread and asyncfwrite is completed on return and reports failure,
\* whatever the outcome of the stat or open.
C9_Original ==
    \A c \in Contexts \cup {lastop.ctx} :
        c.op # "NONE" => c.finished /\ c.failed

\* C9 as amended: every such context is completed on return; those of
\* asyncfopen(path, read, write, pos), asyncfread and asyncfwrite report
\* failure, and the one of asyncfopen(path) reports failure exactly when its
\* stat fails.
C9_SyncCompletion ==
    /\ \A c \in Contexts \cup {lastop.ctx} :
         c.op # "NONE" => c.finished /\ (c.by # "asyncfopen" => c.failed)
    /\ lastop.op = "asyncfopen" =>
         /\ lastop.ctx.by = "asyncfopen"
         /\ lastop.ctx.failed = ("sysstat:fail" \in Calls(lastop))

\* asyncfopen(path) has returned a context that completed without failure,
\* beside a failed READ context
C9_Witness ==
    /\ lastop.op = "asyncfopen"
    /\ "sysstat:ok" \in Calls(lastop)
    /\ ~lastop.ctx.failed /\ lastop.ctx.finished
    /\ \E c \in Contexts : c.by = "asyncfread" /\ c.failed

\* C10: in deferred mode, over any sequence of asyncfread calls, READ-context
\* destructions and synchronous fread/frawread/openf/closef calls, a reader
\* joining an async-opened handle does not open it again, and the handle is
\* closed (sysclose) only when the concurrent-reader count is back to zero,
\* never while async readers are outstanding.
C10_CountGatesClose ==
    [][/\ (fa'.numAsyncReads = fa.numAsyncReads + 1 /\ fa.isAsyncOpened)
            => "sysopen_async:ok" \notin Calls(lastop')
       /\ (handle /\ ~handle' /\ "sysclose" \in Calls(lastop'))
            => fa'.numAsyncReads = 0]_vars

(***************************************************************************)
(* Claims about ~AsyncIOContext and finish over a native backend           *)
(* (SpecNative).                                                           *)
(***************************************************************************)
\* the destructor leaves finish behind and runs lines 578-581
Proceeds == thread.pc = "close" /\ thread'.pc = "idle"

\* C11: destroying an AsyncIOContext whose completion flag is not yet set does
\* not proceed until the backend has set the completion flag and the waiter
\* is signalled; only then, and only for a READ context, the concurrent-reader
\* count of the FileAccess goes down by exactly one; for every other kind,
\* and at every other step of the destruction, the count is unchanged.
C11_DestroyWaits ==
    [][/\ Proceeds =>
            /\ dying.finished /\ dying.trace # <<>>
            /\ thread.hadToWait => waiter /\ thread.notified > 0
            /\ fa'.numAsyncReads =
                 fa.numAsyncReads - (IF dying.op = "READ" THEN 1 ELSE 0)
       /\ (thread.pc # "idle" /\ ~Proceeds) =>
            fa'.numAsyncReads = fa.numAsyncReads]_vars

\* a READ context that was pending when its destruction began has been
\* destroyed after a wait, and released the last reader of the handle
C11_Witness ==
    /\ thread.pc = "idle" /\ thread.hadToWait /\ thread.waited
    /\ lastop.op = "destroy" /\ lastop.ctx.op = "READ"
    /\ "sysclose" \in Calls(lastop)
    /\ fa.numAsyncReads = 0

(***************************************************************************)
(* Further claims about FileAccess (SpecFile).                             *)
(***************************************************************************)
\* the step is a call of the operation named: every operation but an external
\* modification of the file records itself in lastop
StepOf(opname) == lastop'.op = opname /\ disk' = disk

\* C12: when openf (in deferred mode, after fopen) stats the file and its
\* current mtime or size differs from the cached values, openf returns false,
\* sets retry to false, replaces the cached mtime and size with the current
\* values and does not call sysopen.
C12_StaleOpenf ==
    [][/\ StepOf("openf") /\ fa.nonblocking
       /\ "sysstat:ok" \in Calls(lastop')
       /\ (disk.mtime # fa.mtime \/ disk.size # fa.size)
       => /\ ~lastop'.ret
          /\ ~fa'.retry
          /\ fa'.mtime = disk.mtime /\ fa'.size = disk.size
          /\ lastop'.calls = <<"sysstat:ok", "openf:false">>
          /\ handle' = handle]_vars

\* openf has failed on a file that was modified after fopen, and now caches
\* the new mtime and size
C12_Witness ==
    /\ lastop.op = "openf" /\ ~lastop.ret
    /\ lastop.calls = <<"sysstat:ok", "openf:false">>
    /\ fa.nonblocking /\ ~fa.retry
    /\ disk = [mtime |-> 2, size |-> 2]
    /\ fa.mtime = 2 /\ fa.size = 2

(***************************************************************************)
(* AsyncIOContext::finish (SpecNative).                                    *)
(***************************************************************************)
\* finish has returned: the destructor is at line 578
FinishReturned == thread.pc = "close"

\* C13: finish returns only with the completion flag true; if it had to wait
\* it has notified the waiter once more before returning, so that the waiter
\* is signalled for its next consumer; if the context was already completed it
\* has neither waited nor notified.  And, the backend completing every
\* operation and then notifying the waiter, every call of finish returns.
C13_FinishJoins ==
    /\ [](FinishReturned =>
            /\ dying.finished
            /\ thread.hadToWait => thread.notified = 1 /\ waiter
            /\ ~thread.hadToWait => ~thread.waited /\ thread.notified = 0)
    /\ [](thread.waited => thread.hadToWait)
    /\ (thread.pc = "finish" ~> FinishReturned)

\* finish has returned after blocking in wait() on a context whose backend
\* had not completed it, the waiter notified again
C13_Witness ==
    /\ FinishReturned
    /\ thread.hadToWait /\ thread.waited /\ thread.notified = 1
    /\ dying.callbacks = 1
    /\ waiter

(***************************************************************************)
(* Claims about LocalPath, normalize and captimestamp (SpecCalls), and     *)
(* about escapefsincompatible (SpecName).                                  *)
(***************************************************************************)
HasReturned(fn) == returned.done /\ call.fn = fn

\* the bytes of s begin with the bytes of r
BeginsWith(s, r) == Len(s) >= Len(r) /\ SubSeq(s, 1, Len(r)) = r

\* a complete separator lies in the bytes of s at (0-based) offset off
SeparatorAt(s, off, sep) ==
    off + Len(sep) <= Len(s) /\ SubSeq(s, off + 1, off + Len(sep)) = sep

\* C14: isContainingPathOf(parent, child) is true if and only if child's bytes
\* begin with parent's bytes and either the lengths are equal or a complete
\* separator starts in child exactly at parent's length; it is false for a
\* partial-component prefix, also when child is longer than parent by fewer
\* bytes than one separator.
C14_Containing ==
    HasReturned("isContainingPathOf") =>
        returned.bool =
            (/\ BeginsWith(call.path, call.this)
             /\ \/ Len(call.path) = Len(call.this)
                \/ SeparatorAt(call.path, Len(call.this), call.sep))

\* C15: escapefsincompatible is idempotent on its own output: for every name
\* x, escapefsincompatible applied to escapefsincompatible(x) returns it
\* unchanged, also for x = "." and x = "..".
C15_EscapeIdempotent ==
    stage = "escaped twice" =>
        /\ name = escapefsincompatible(orig)
        /\ \A i \in 1..Len(name) : islocalfscompatible(name[i])

\* ".." has been escaped to "%2e%2e", and that escaped again
C15_Witness ==
    /\ stage = "escaped twice"
    /\ orig = <<46, 46>>
    /\ name = <<37, 50, 101, 37, 50, 101>>

\* the position of the first zero byte of s, or Len(s) + 1 if it has none
RECURSIVE FirstNul(_)
FirstNul(s) == IF s = <<>> \/ Head(s) = 0 THEN 1 ELSE 1 + FirstNul(Tail(s))

\* the maximal non-null runs of s, in order, empty runs between adjacent zero
\* bytes and at the ends included
RECURSIVE Runs(_)
Runs(s) ==
    LET k == FirstNul(s)
    IN  IF k > Len(s) THEN <<s>>
        ELSE <<SubSeq(s, 1, k - 1)>> \o Runs(SubSeq(s, k + 1, Len(s)))

\* the runs rs, each normalized, with one zero byte between neighbours
RECURSIVE Reassembled(_)
Reassembled(rs) ==
    LET first == IF rs[1] = <<>> THEN <<>> ELSE utf8proc_NFC(rs[1]).bytes
    IN  IF Len(rs) = 1 THEN first
        ELSE first \o <<0>> \o Reassembled(Tail(rs))

NFCFails(rs) == \E i \in 1..Len(rs) : rs[i] # <<>> /\ ~utf8proc_NFC(rs[i]).ok

\* C16: normalize splits its input at zero bytes, applies NFC to each maximal
\* non-null run on its own, and returns the normalized runs with every zero
\* byte kept in place between them (leading, trailing and consecutive ones
\* too); if NFC fails on any run it returns the empty string.
C16_NormalizeRuns ==
    HasReturned("normalize") =>
        returned.bytes =
            IF NFCFails(Runs(call.path)) THEN <<>> ELSE Reassembled(Runs(call.path))

\* a decomposed character before a trailing zero byte was composed and the
\* zero byte kept
C16_Witness ==
    /\ HasReturned("normalize")
    /\ call.path = <<101, 204, 0>>
    /\ returned.bytes = <<195, 0>>

TimeMax(a, b) == IF Before(a, b) THEN b ELSE a
TimeMin(a, b) == IF Before(a, b) THEN a ELSE b

\* C17: captimestamp maps every signed 64-bit timestamp t to
\* min(max(t, 0), 2^32 - 1): negative values become 0, values above 2^32 - 1
\* become 2^32 - 1, values in between are unchanged.
C17_Saturates ==
    HasReturned("captimestamp") =>
        /\ returned.t = TimeMin(TimeMax(call.t, Time0), TimeCap)
        /\ call.t[1] < 0 => returned.t = Time0
        /\ call.t[1] > 0 => returned.t = TimeCap
        /\ call.t[1] = 0 => returned.t = call.t

\* the smallest 64-bit timestamp, -2^63, was capped to 0
C17_Witness ==
    /\ HasReturned("captimestamp")
    /\ call.t = <<-2147483647 - 1, 0, 0>>
    /\ returned.t = Time0

(***************************************************************************)
(* fread, frawread and the reader count (SpecFile).                        *)
(***************************************************************************)
Count(seq, S) == Cardinality({i \in 1..Len(seq) : seq[i] \in S})
Where(seq, S) == CHOOSE i \in 1..Len(seq) : seq[i] \in S

OpenfReturns == {"openf:true", "openf:false"}
SysReads == {"sysread:ok", "sysread:fail"}

\* C18: fread and frawread keep open and close balanced.  When the caller
\* does not hold the handle, openf is called once; if it succeeds, one read
\* follows and then exactly one closef, whether the read succeeded or not,
\* and the result is the read's; if it fails, false is returned with no read
\* and no closef.  frawread with caller_opened = true only reads.  And after a
\* successful fread the pad bytes behind the len bytes read are zero.
C18_OpenCloseBalanced ==
    LET c == lastop.calls
    IN  /\ lastop.op \in {"fread", "frawread"} =>
             /\ Count(c, OpenfReturns) = 1
             /\ IF "openf:false" \in Calls(lastop)
                THEN /\ ~lastop.ret
                     /\ c[Len(c)] = "openf:false"
                     /\ Count(c, SysReads \cup {"closef", "sysclose"}) = 0
                ELSE /\ Count(c, SysReads) = 1 /\ Count(c, {"closef"}) = 1
                     /\ Where(c, OpenfReturns) < Where(c, SysReads)
                     /\ Where(c, SysReads) < Where(c, {"closef"})
                     /\ lastop.ret = ("sysread:ok" \in Calls(lastop))
        /\ lastop.op = "frawread caller_opened" =>
             /\ Len(c) = 1 /\ c[1] \in SysReads
             /\ lastop.ret = (c[1] = "sysread:ok")
        /\ lastop.op = "fread" /\ lastop.ret =>
             /\ Len(lastop.dst) = lastop.len + lastop.pad
             /\ \A i \in 1..lastop.len : lastop.dst[i] = DataByte
             /\ \A i \in (lastop.len + 1)..(lastop.len + lastop.pad) : lastop.dst[i] = 0

\* fread, in deferred mode, has opened the file, read one byte into a used
\* string, cleared the two pad bytes and closed the file
C18_Witness ==
    /\ lastop.op = "fread" /\ lastop.ret
    /\ lastop.calls = <<"sysstat:ok", "sysopen:ok", "openf:true",
                        "sysread:ok", "closef", "sysclose">>
    /\ lastop.dst = <<DataByte, 0, 0>>
    /\ ~handle

(***************************************************************************)
(* getLeafnameByteIndex (SpecCalls).                                       *)
(***************************************************************************)
\* the offsets just past a complete separator of s
PastSeparator(s, sep) ==
    {off + Len(sep) : off \in {o \in 0..Len(s) : SeparatorAt(s, o, sep)}}

Largest(S) == CHOOSE x \in S : \A y \in S : y <= x

\* C19: getLeafnameByteIndex returns the byte index at which the last path
\* component starts: the offset just past the last complete separator of the
\* path, or 0 when the path has no separator; for every path, one whose only
\* separator is at offset 0 and one whose length is not a multiple of the
\* separator's length included, and the index is within [0, path length].
C19_LeafIndex ==
    HasReturned("getLeafnameByteIndex") =>
        /\ returned.index >= 0 /\ returned.index <= Len(call.path)
        /\ returned.index =
             IF PastSeparator(call.path, call.sep) = {} THEN 0
             ELSE Largest(PastSeparator(call.path, call.sep))

(***************************************************************************)
(* The reader count (SpecFile).                                            *)
(***************************************************************************)
\* the number of live READ contexts
LiveReads ==
    LET R == {c \in BagToSet(ctxs) : c.op = "READ"}
    IN  BagCardinality([c \in R |-> CopiesIn(c, ctxs)])

\* C20: after any sequence of asyncfread calls and AsyncIOContext
\* destructions (and of the other operations) on one FileAccess,
\* numAsyncReads is the number of live READ contexts, also when asyncopenf
\* failed for some of them; isAsyncOpened implies numAsyncReads > 0; and with
\* every context destroyed numAsyncReads = 0 and isAsyncOpened = false, which
\* is what ~FileAccess asserts.
C20_ReaderCount ==
    /\ fa.numAsyncReads = LiveReads
    /\ fa.isAsyncOpened => fa.numAsyncReads > 0
    /\ ctxs = EmptyBag => fa.numAsyncReads = 0 /\ ~fa.isAsyncOpened

\* a second asyncfread has opened the handle while the context of a first
\* one, whose asyncopenf failed on a transient error, is still alive
C20_Witness ==
    /\ lastop.op = "asyncfread" /\ "sysopen_async:ok" \in Calls(lastop)
    /\ fa.numAsyncReads = 2 /\ fa.isAsyncOpened
    /\ \E c \in Contexts : c.op = "READ" /\ c.retry

(***************************************************************************)
(* The staleness check (SpecFile).                                         *)
(***************************************************************************)
\* the step is a call that reaches the staleness check of openf or of
\* asyncopenf: in deferred mode, the handle not async-opened for asyncopenf,
\* and the stat succeeding
ReachesStaleCheck ==
    /\ fa.nonblocking
    /\ \/ StepOf("openf") \/ StepOf("fread") \/ StepOf("frawread")
       \/ StepOf("asyncfread") /\ ~fa.isAsyncOpened
    /\ "sysstat:ok" \in Calls(lastop')

Opens == {"sysopen:ok", "sysopen:fail", "sysopen_async:ok", "sysopen_async:fail"}

\* C21: an external modification is reported by the staleness check once.
\* After openf or asyncopenf has failed because mtime or size differed, the
\* cached values are those on disk, and the next openf or asyncopenf on the
\* same FileAccess, the file not changed again and no fopen in between,
\* passes the staleness check and goes on to the real open.
C21_ReportedOnce ==
    /\ [][StaleFailure(lastop') /\ disk' = disk =>
            fa'.mtime = disk.mtime /\ fa'.size = disk.size]_vars
    /\ [][/\ StaleFailure(lastop)
          /\ fa.mtime = disk.mtime /\ fa.size = disk.size
          /\ ReachesStaleCheck
          => /\ ~StaleFailure(lastop')
             /\ Count(lastop'.calls, Opens) = 1
             /\ fa'.mtime = fa.mtime /\ fa'.size = fa.size]_vars

\* openf has opened the file right after an openf that reported it changed
C21_Witness ==
    /\ lastop.op = "openf" /\ lastop.reopened /\ lastop.ret
    /\ lastop.calls = <<"sysstat:ok", "sysopen:ok", "openf:true">>
    /\ handle
    /\ fa.mtime = 2 /\ disk.mtime = 2

(***************************************************************************)
(* backEqual (SpecCalls).                                                  *)
(***************************************************************************)
\* C22: backEqual(bytePos, s), in both overloads, returns true if and only if
\* the bytes of the path from bytePos to its end are exactly s: bytePos + |s|
\* is the length of the path and the bytes compare equal.
C22_BackEqual ==
    returned.done /\ call.fn \in BackEquals =>
        returned.bool =
            (/\ call.bytePos + Len(call.path) = Len(call.this)
             /\ SubSeq(call.this, call.bytePos + 1, Len(call.this)) = call.path)

====
